---- MODULE Spec2Model ----
(***************************************************************************)
(* Model of source/core/objects/cameras/Viewport.js (nunuStudio).          *)
(*                                                                         *)
(* A Viewport stores an offset/size pair (RELATIVE: fractions of the       *)
(* drawing surface, ABSOLUTE: pixels), a sizing mode and an anchor corner. *)
(* isInside, getNormalized and enable each resolve the pair against the    *)
(* surface size and the anchor with their own arithmetic.                  *)
(*                                                                         *)
(* JavaScript numbers are modelled as exact rationals <<n, d>> with d >= 0 *)
(* (d = 0 encodes +Infinity, -Infinity and NaN, the results of a division  *)
(* by zero); floating point rounding is not modelled.                      *)
(***************************************************************************)
EXTENDS Integers, Sequences, FiniteSets, TLC

VARIABLES
    vp,          \* vp[i]: the fields of Viewport instance i
    normalized,  \* the one THREE.Vector2 closed over by getNormalized
    renderer,    \* the rendering backend's viewport and scissor rectangles
    canvas,      \* the caller's drawing surface (width, height)
    mouse,       \* the caller's mouse object (position)
    ret,         \* what the most recent method call returned to its caller
    held,        \* the reference the caller kept from an earlier getNormalized
    wellFormed   \* every record given to fromJSON so far held a mode and an anchor

vars == <<vp, normalized, renderer, canvas, mouse, ret, held, wellFormed>>

-----------------------------------------------------------------------------
(* Bounds of the model *)

\* pointer and surface grid of the geometry specification, in pixels
MaxW == 4
MaxH == 2
\* offsets range over k/2, k in 0..MaxOffset; sizes over k/2, k in 1..MaxSize
MaxOffset == 1
MaxSize == 3

Inst == {1, 2}

-----------------------------------------------------------------------------
(* JavaScript numbers *)

Abs(n) == IF n < 0 THEN -n ELSE n

Sign(n) == IF n < 0 THEN -1 ELSE IF n > 0 THEN 1 ELSE 0

RECURSIVE GCD(_, _)
GCD(a, b) == IF b = 0 THEN a ELSE GCD(b, a % b)

\* the number n/d in lowest terms; x/0 is +Infinity, -Infinity or NaN
Q(n, d) ==
    IF d = 0 THEN <<Sign(n), 0>>
    ELSE LET g == GCD(Abs(n), Abs(d))
             s == Sign(d)
         IN  <<(s * n) \div g, (s * d) \div g>>

I(n) == <<n, 1>>

Add(a, b) == Q(a[1] * b[2] + b[1] * a[2], a[2] * b[2])
Neg(a) == <<-a[1], a[2]>>
Sub(a, b) == Add(a, Neg(b))
Mul(a, b) == Q(a[1] * b[1], a[2] * b[2])
\* a / b; a division by zero gives an infinity of a's sign, 0 / 0 gives NaN
Div(a, b) ==
    IF b[1] = 0 /\ b[2] # 0 THEN Q(a[1], 0)
    ELSE Q(a[1] * b[2] * Sign(b[1]), a[2] * Abs(b[1]))

\* a < b; every comparison with NaN is false
Lt(a, b) ==
    IF a[2] = 0 /\ b[2] = 0 THEN a[1] = -1 /\ b[1] = 1
    ELSE IF (a[2] = 0 /\ a[1] = 0) \/ (b[2] = 0 /\ b[1] = 0) THEN FALSE
    ELSE a[1] * b[2] < b[1] * a[2]

Gt(a, b) == Lt(b, a)
Le(a, b) == Lt(a, b) \/ (a = b /\ ~(a[1] = 0 /\ a[2] = 0))

-----------------------------------------------------------------------------
(* THREE vectors *)

Vector2(x, y) == [x |-> x, y |-> y]

\* new THREE.Vector4(): the library's default is (0, 0, 0, 1)
Vector4 == [x |-> I(0), y |-> I(0), z |-> I(0), w |-> I(1)]

toArray(v) == <<v.x, v.y>>

fromArray(array) == [x |-> array[1], y |-> array[2]]

-----------------------------------------------------------------------------
(* Viewport: constants and constructor *)

RELATIVE == 200
ABSOLUTE == 201

TOP_LEFT == 301
TOP_RIGHT == 302
BOTTOM_LEFT == 303
BOTTOM_RIGHT == 304

Modes == {RELATIVE, ABSOLUTE}
Anchors == {TOP_LEFT, TOP_RIGHT, BOTTOM_LEFT, BOTTOM_RIGHT}

\* the value of an omitted argument
undefined == -1

\* constructor arguments: a mode, or omitted
CtorArgs == Modes \cup {undefined}

Viewport(mode) ==
    [offset   |-> Vector2(I(0), I(0)),
     size     |-> Vector2(I(1), I(1)),
     mode     |-> IF mode # undefined THEN mode ELSE RELATIVE,
     anchor   |-> TOP_LEFT,
     viewport |-> Vector4]

-----------------------------------------------------------------------------
(* The methods as functions of the instance v and their arguments *)

getAspectRatioValue(v) == Div(v.size.x, v.size.y)

\* isInsideValue with the left bound of BOTTOM_RIGHT included
isInsideValue_ge(v, cv, ms) ==
    LET width == cv.width
        height == cv.height
        offset == IF v.mode = RELATIVE
                  THEN Vector2(Mul(v.offset.x, width), Mul(v.offset.y, height))
                  ELSE v.offset
        viewport == IF v.mode = RELATIVE
                    THEN Vector2(Mul(v.size.x, width), Mul(v.size.y, height))
                    ELSE v.size
    IN  IF v.anchor = TOP_LEFT
        THEN /\ Gt(ms.position.x, offset.x)
             /\ Lt(ms.position.x, Add(offset.x, viewport.x))
             /\ Gt(ms.position.y, offset.y)
             /\ Lt(ms.position.y, Add(offset.y, viewport.y))
        ELSE IF v.anchor = TOP_RIGHT
        THEN /\ Gt(ms.position.x, Sub(Sub(width, viewport.x), offset.x))
             /\ Lt(ms.position.x, Sub(width, offset.x))
             /\ Gt(ms.position.y, offset.y)
             /\ Lt(ms.position.y, Add(offset.y, viewport.y))
        ELSE IF v.anchor = BOTTOM_LEFT
        THEN /\ Gt(ms.position.x, offset.x)
             /\ Lt(ms.position.x, Add(offset.x, viewport.x))
             /\ Gt(ms.position.y, Sub(Sub(height, offset.y), viewport.y))
             /\ Lt(ms.position.y, Sub(height, offset.y))
        ELSE /\ ~Lt(ms.position.x, Sub(Sub(width, viewport.x), offset.x))
             /\ Lt(ms.position.x, Sub(width, offset.x))
             /\ Gt(ms.position.y, Sub(Sub(height, offset.y), viewport.y))
             /\ Lt(ms.position.y, Sub(height, offset.y))

\* isInsideValue with the RELATIVE offset.y scaled by the width
isInsideValue_scale(v, cv, ms) ==
    LET width == cv.width
        height == cv.height
        offset == IF v.mode = RELATIVE
                  THEN Vector2(Mul(v.offset.x, width), Mul(v.offset.y, width))
                  ELSE v.offset
        viewport == IF v.mode = RELATIVE
                    THEN Vector2(Mul(v.size.x, width), Mul(v.size.y, height))
                    ELSE v.size
    IN  IF v.anchor = TOP_LEFT
        THEN /\ Gt(ms.position.x, offset.x)
             /\ Lt(ms.position.x, Add(offset.x, viewport.x))
             /\ Gt(ms.position.y, offset.y)
             /\ Lt(ms.position.y, Add(offset.y, viewport.y))
        ELSE IF v.anchor = TOP_RIGHT
        THEN /\ Gt(ms.position.x, Sub(Sub(width, viewport.x), offset.x))
             /\ Lt(ms.position.x, Sub(width, offset.x))
             /\ Gt(ms.position.y, offset.y)
             /\ Lt(ms.position.y, Add(offset.y, viewport.y))
        ELSE IF v.anchor = BOTTOM_LEFT
        THEN /\ Gt(ms.position.x, offset.x)
             /\ Lt(ms.position.x, Add(offset.x, viewport.x))
             /\ Gt(ms.position.y, Sub(Sub(height, offset.y), viewport.y))
             /\ Lt(ms.position.y, Sub(height, offset.y))
        ELSE /\ Gt(ms.position.x, Sub(Sub(width, viewport.x), offset.x))
             /\ Lt(ms.position.x, Sub(width, offset.x))
             /\ Gt(ms.position.y, Sub(Sub(height, offset.y), viewport.y))
             /\ Lt(ms.position.y, Sub(height, offset.y))

isInsideValue(v, cv, ms) ==
    LET width == cv.width
        height == cv.height
        offset == IF v.mode = RELATIVE
                  THEN Vector2(Mul(v.offset.x, width), Mul(v.offset.y, height))
                  ELSE v.offset
        viewport == IF v.mode = RELATIVE
                    THEN Vector2(Mul(v.size.x, width), Mul(v.size.y, height))
                    ELSE v.size
    IN  IF v.anchor = TOP_LEFT
        THEN /\ Gt(ms.position.x, offset.x)
             /\ Lt(ms.position.x, Add(offset.x, viewport.x))
             /\ Gt(ms.position.y, offset.y)
             /\ Lt(ms.position.y, Add(offset.y, viewport.y))
        ELSE IF v.anchor = TOP_RIGHT
        THEN /\ Gt(ms.position.x, Sub(Sub(width, viewport.x), offset.x))
             /\ Lt(ms.position.x, Sub(width, offset.x))
             /\ Gt(ms.position.y, offset.y)
             /\ Lt(ms.position.y, Add(offset.y, viewport.y))
        ELSE IF v.anchor = BOTTOM_LEFT
        THEN /\ Gt(ms.position.x, offset.x)
             /\ Lt(ms.position.x, Add(offset.x, viewport.x))
             /\ Gt(ms.position.y, Sub(Sub(height, offset.y), viewport.y))
             /\ Lt(ms.position.y, Sub(height, offset.y))
        ELSE /\ Gt(ms.position.x, Sub(Sub(width, viewport.x), offset.x))
             /\ Lt(ms.position.x, Sub(width, offset.x))
             /\ Gt(ms.position.y, Sub(Sub(height, offset.y), viewport.y))
             /\ Lt(ms.position.y, Sub(height, offset.y))

\* getNormalizedValue with the BOTTOM_LEFT x not shifted by the viewport width
getNormalizedValue_nosub(v, cv, ms) ==
    LET width == cv.width
        height == cv.height
        offset == IF v.mode = RELATIVE
                  THEN Vector2(Mul(v.offset.x, width), Mul(v.offset.y, height))
                  ELSE v.offset
        viewport == IF v.mode = RELATIVE
                    THEN Vector2(Mul(v.size.x, width), Mul(v.size.y, height))
                    ELSE v.size
    IN  IF v.anchor = TOP_LEFT
        THEN LET x == Sub(Sub(ms.position.x, viewport.x), offset.x)
                 y == Sub(ms.position.y, offset.y)
             IN  Vector2(Add(Mul(Div(x, viewport.x), I(2)), I(1)),
                         Add(Mul(Div(Neg(y), viewport.y), I(2)), I(1)))
        ELSE IF v.anchor = TOP_RIGHT
        THEN LET x == Sub(Sub(Sub(width, ms.position.x), viewport.x), offset.x)
                 y == Sub(ms.position.y, offset.y)
             IN  Vector2(Sub(Mul(Div(Neg(x), viewport.x), I(2)), I(1)),
                         Add(Mul(Div(Neg(y), viewport.y), I(2)), I(1)))
        ELSE IF v.anchor = BOTTOM_LEFT
        THEN LET x == Sub(ms.position.x, offset.x)
                 y == Sub(Sub(height, ms.position.y), offset.y)
             IN  Vector2(Add(Mul(Div(x, viewport.x), I(2)), I(1)),
                         Sub(Mul(Div(y, viewport.y), I(2)), I(1)))
        ELSE LET x == Sub(Sub(Sub(width, ms.position.x), viewport.x), offset.x)
                 y == Sub(Sub(height, ms.position.y), offset.y)
             IN  Vector2(Sub(Mul(Div(Neg(x), viewport.x), I(2)), I(1)),
                         Sub(Mul(Div(y, viewport.y), I(2)), I(1)))

getNormalizedValue(v, cv, ms) ==
    LET width == cv.width
        height == cv.height
        offset == IF v.mode = RELATIVE
                  THEN Vector2(Mul(v.offset.x, width), Mul(v.offset.y, height))
                  ELSE v.offset
        viewport == IF v.mode = RELATIVE
                    THEN Vector2(Mul(v.size.x, width), Mul(v.size.y, height))
                    ELSE v.size
    IN  IF v.anchor = TOP_LEFT
        THEN LET x == Sub(Sub(ms.position.x, viewport.x), offset.x)
                 y == Sub(ms.position.y, offset.y)
             IN  Vector2(Add(Mul(Div(x, viewport.x), I(2)), I(1)),
                         Add(Mul(Div(Neg(y), viewport.y), I(2)), I(1)))
        ELSE IF v.anchor = TOP_RIGHT
        THEN LET x == Sub(Sub(Sub(width, ms.position.x), viewport.x), offset.x)
                 y == Sub(ms.position.y, offset.y)
             IN  Vector2(Sub(Mul(Div(Neg(x), viewport.x), I(2)), I(1)),
                         Add(Mul(Div(Neg(y), viewport.y), I(2)), I(1)))
        ELSE IF v.anchor = BOTTOM_LEFT
        THEN LET x == Sub(Sub(ms.position.x, viewport.x), offset.x)
                 y == Sub(Sub(height, ms.position.y), offset.y)
             IN  Vector2(Add(Mul(Div(x, viewport.x), I(2)), I(1)),
                         Sub(Mul(Div(y, viewport.y), I(2)), I(1)))
        ELSE LET x == Sub(Sub(Sub(width, ms.position.x), viewport.x), offset.x)
                 y == Sub(Sub(height, ms.position.y), offset.y)
             IN  Vector2(Sub(Mul(Div(Neg(x), viewport.x), I(2)), I(1)),
                         Sub(Mul(Div(y, viewport.y), I(2)), I(1)))

\* the backend's two setters
setViewport(r, x, y, width, height) == [r EXCEPT !.viewport = <<x, y, width, height>>]

setScissor(r, x, y, width, height) == [r EXCEPT !.scissor = <<x, y, width, height>>]

\* enableValue with the TOP_RIGHT scissor taken from the unflipped offset.x
enableValue_scissor(v, r, cv) ==
    LET width == cv.width
        height == cv.height
        offset == IF v.mode = RELATIVE
                  THEN Vector2(Mul(v.offset.x, width), Mul(v.offset.y, height))
                  ELSE v.offset
        viewport == IF v.mode = RELATIVE
                    THEN Vector2(Mul(v.size.x, width), Mul(v.size.y, height))
                    ELSE v.size
    IN  IF v.anchor = BOTTOM_LEFT
        THEN setScissor(setViewport(r, offset.x, offset.y, viewport.x, viewport.y),
                        offset.x, offset.y, viewport.x, viewport.y)
        ELSE IF v.anchor = BOTTOM_RIGHT
        THEN LET x == Sub(Sub(width, viewport.x), offset.x)
             IN  setScissor(setViewport(r, x, offset.y, viewport.x, viewport.y),
                            x, offset.y, viewport.x, viewport.y)
        ELSE IF v.anchor = TOP_LEFT
        THEN LET y == Sub(Sub(height, viewport.y), offset.y)
             IN  setScissor(setViewport(r, offset.x, y, viewport.x, viewport.y),
                            offset.x, y, viewport.x, viewport.y)
        ELSE LET x == Sub(Sub(width, viewport.x), offset.x)
                 y == Sub(Sub(height, viewport.y), offset.y)
             IN  setScissor(setViewport(r, x, y, viewport.x, viewport.y),
                            offset.x, y, viewport.x, viewport.y)

\* enableValue with the TOP_LEFT rectangle measured from the top
enableValue_topleft(v, r, cv) ==
    LET width == cv.width
        height == cv.height
        offset == IF v.mode = RELATIVE
                  THEN Vector2(Mul(v.offset.x, width), Mul(v.offset.y, height))
                  ELSE v.offset
        viewport == IF v.mode = RELATIVE
                    THEN Vector2(Mul(v.size.x, width), Mul(v.size.y, height))
                    ELSE v.size
    IN  IF v.anchor = BOTTOM_LEFT
        THEN setScissor(setViewport(r, offset.x, offset.y, viewport.x, viewport.y),
                        offset.x, offset.y, viewport.x, viewport.y)
        ELSE IF v.anchor = BOTTOM_RIGHT
        THEN LET x == Sub(Sub(width, viewport.x), offset.x)
             IN  setScissor(setViewport(r, x, offset.y, viewport.x, viewport.y),
                            x, offset.y, viewport.x, viewport.y)
        ELSE IF v.anchor = TOP_LEFT
        THEN LET y == offset.y
             IN  setScissor(setViewport(r, offset.x, y, viewport.x, viewport.y),
                            offset.x, y, viewport.x, viewport.y)
        ELSE LET x == Sub(Sub(width, viewport.x), offset.x)
                 y == Sub(Sub(height, viewport.y), offset.y)
             IN  setScissor(setViewport(r, x, y, viewport.x, viewport.y),
                            x, y, viewport.x, viewport.y)

\* the backend after enable(renderer) on v, the surface being cv
enableValue(v, r, cv) ==
    LET width == cv.width
        height == cv.height
        offset == IF v.mode = RELATIVE
                  THEN Vector2(Mul(v.offset.x, width), Mul(v.offset.y, height))
                  ELSE v.offset
        viewport == IF v.mode = RELATIVE
                    THEN Vector2(Mul(v.size.x, width), Mul(v.size.y, height))
                    ELSE v.size
    IN  IF v.anchor = BOTTOM_LEFT
        THEN setScissor(setViewport(r, offset.x, offset.y, viewport.x, viewport.y),
                        offset.x, offset.y, viewport.x, viewport.y)
        ELSE IF v.anchor = BOTTOM_RIGHT
        THEN LET x == Sub(Sub(width, viewport.x), offset.x)
             IN  setScissor(setViewport(r, x, offset.y, viewport.x, viewport.y),
                            x, offset.y, viewport.x, viewport.y)
        ELSE IF v.anchor = TOP_LEFT
        THEN LET y == Sub(Sub(height, viewport.y), offset.y)
             IN  setScissor(setViewport(r, offset.x, y, viewport.x, viewport.y),
                            offset.x, y, viewport.x, viewport.y)
        ELSE LET x == Sub(Sub(width, viewport.x), offset.x)
                 y == Sub(Sub(height, viewport.y), offset.y)
             IN  setScissor(setViewport(r, x, y, viewport.x, viewport.y),
                            x, y, viewport.x, viewport.y)

\* toJSONValue with size serialized from the offset
toJSONValue_copy(v) ==
    [offset |-> toArray(v.offset),
     size   |-> toArray(v.offset),
     mode   |-> v.mode,
     anchor |-> v.anchor]

toJSONValue(v) ==
    [offset |-> toArray(v.offset),
     size   |-> toArray(v.size),
     mode   |-> v.mode,
     anchor |-> v.anchor]

\* fromJSONValue with mode and anchor read from each other's field
fromJSONValue_swap(v, data) ==
    [v EXCEPT !.offset = fromArray(data.offset),
              !.size = fromArray(data.size),
              !.mode = data.anchor,
              !.anchor = data.mode]

fromJSONValue(v, data) ==
    [v EXCEPT !.offset = fromArray(data.offset),
              !.size = fromArray(data.size),
              !.mode = data.mode,
              !.anchor = data.anchor]

-----------------------------------------------------------------------------
(* What a call hands back to its caller *)

\* A reference to a THREE.Vector2: obj names the object ("normalized" is the
\* vector getNormalized closes over, "new" an object of its own whose value
\* is val); by and at record the call that returned it.
NoRef == [obj |-> "none", val |-> Vector2(I(0), I(0)), by |-> 0, at |-> Vector2(I(0), I(0))]

Deref(r) == IF r.obj = "normalized" THEN normalized ELSE r.val

NoData == [none |-> TRUE]

NoRet ==
    [op |-> "none", inst |-> 0, bool |-> FALSE, num |-> I(0), vec |-> NoRef,
     kept |-> NoRef, data |-> NoData, src |-> 0, fresh |-> FALSE]

Fields(v) == <<v.offset, v.size, v.mode, v.anchor>>

-----------------------------------------------------------------------------
(* The owner writes a field; the pointer moves *)

SetOffset(i, o) ==
    /\ vp' = [vp EXCEPT ![i].offset = o]
    /\ ret' = NoRet
    /\ UNCHANGED <<normalized, renderer, canvas, mouse, held, wellFormed>>

SetSize(i, s) ==
    /\ vp' = [vp EXCEPT ![i].size = s]
    /\ ret' = NoRet
    /\ UNCHANGED <<normalized, renderer, canvas, mouse, held, wellFormed>>

SetMode(i, m) ==
    /\ vp' = [vp EXCEPT ![i].mode = m]
    /\ ret' = NoRet
    /\ UNCHANGED <<normalized, renderer, canvas, mouse, held, wellFormed>>

SetAnchor(i, a) ==
    /\ vp' = [vp EXCEPT ![i].anchor = a]
    /\ ret' = NoRet
    /\ UNCHANGED <<normalized, renderer, canvas, mouse, held, wellFormed>>

MouseMove(p) ==
    /\ mouse' = p
    /\ ret' = NoRet
    /\ UNCHANGED <<vp, normalized, renderer, canvas, held, wellFormed>>

-----------------------------------------------------------------------------
(* The methods *)

\* update storing the backend rectangle in the viewport field
update_fill(i) ==
    /\ ret' = [NoRet EXCEPT !.op = "update", !.inst = i]
    /\ vp' = [vp EXCEPT ![i].viewport =
                LET r == enableValue(vp[i], renderer, canvas).viewport
                IN  [x |-> r[1], y |-> r[2], z |-> r[3], w |-> r[4]]]
    /\ UNCHANGED <<normalized, renderer, canvas, mouse, held, wellFormed>>

update(i) ==
    /\ ret' = [NoRet EXCEPT !.op = "update", !.inst = i]
    /\ UNCHANGED <<vp, normalized, renderer, canvas, mouse, held, wellFormed>>

getAspectRatio(i) ==
    /\ ret' = [NoRet EXCEPT !.op = "getAspectRatio", !.inst = i,
                            !.num = getAspectRatioValue(vp[i])]
    /\ UNCHANGED <<vp, normalized, renderer, canvas, mouse, held, wellFormed>>

isInside(i) ==
    /\ ret' = [NoRet EXCEPT !.op = "isInside", !.inst = i,
                            !.bool = isInsideValue(vp[i], canvas, mouse)]
    /\ UNCHANGED <<vp, normalized, renderer, canvas, mouse, held, wellFormed>>

\* resultVector allocating a vector in every call
resultVector_fresh(value) == [NoRef EXCEPT !.obj = "new", !.val = value]

\* the vector a call of getNormalized sets to value and returns: the one
\* allocated when the method was defined
resultVector(value) == [NoRef EXCEPT !.obj = "normalized"]

getNormalized(i) ==
    LET value == getNormalizedValue(vp[i], canvas, mouse)
        r == [resultVector(value) EXCEPT !.by = i, !.at = mouse.position]
    IN  /\ normalized' = IF r.obj = "normalized" THEN value ELSE normalized
        /\ ret' = [NoRet EXCEPT !.op = "getNormalized", !.inst = i, !.vec = r,
                                !.kept = held]
        /\ held' = r
        /\ UNCHANGED <<vp, renderer, canvas, mouse, wellFormed>>

\* enable flipping offset.y in place, which in ABSOLUTE mode is the stored vector
enable_inplace(i) ==
    /\ renderer' = enableValue(vp[i], renderer, canvas)
    /\ ret' = [NoRet EXCEPT !.op = "enable", !.inst = i]
    /\ vp' = IF vp[i].mode = RELATIVE \/ vp[i].anchor # TOP_LEFT THEN vp
             ELSE [vp EXCEPT ![i].offset.y = Sub(Sub(canvas.height, vp[i].size.y), vp[i].offset.y)]
    /\ UNCHANGED <<normalized, canvas, mouse, held, wellFormed>>

enable(i) ==
    /\ renderer' = enableValue(vp[i], renderer, canvas)
    /\ ret' = [NoRet EXCEPT !.op = "enable", !.inst = i]
    /\ UNCHANGED <<vp, normalized, canvas, mouse, held, wellFormed>>

toJSON(i) ==
    /\ ret' = [NoRet EXCEPT !.op = "toJSON", !.inst = i, !.data = toJSONValue(vp[i])]
    /\ UNCHANGED <<vp, normalized, renderer, canvas, mouse, held, wellFormed>>

\* fromJSON(data) on instance i; src is the instance whose toJSON returned
\* data, 0 for a record from elsewhere
fromJSON(i, data, src) ==
    /\ vp' = [vp EXCEPT ![i] = fromJSONValue(vp[i], data)]
    /\ ret' = [NoRet EXCEPT !.op = "fromJSON", !.inst = i, !.src = src,
                            !.fresh = \E m \in CtorArgs : vp[i] = Viewport(m)]
    /\ wellFormed' = (wellFormed /\ data.mode \in Modes /\ data.anchor \in Anchors)
    /\ UNCHANGED <<normalized, renderer, canvas, mouse, held>>

\* fromJSON with the record the preceding toJSON call returned
fromJSONStored(i) ==
    /\ ret.op = "toJSON"
    /\ fromJSON(i, ret.data, ret.inst)

-----------------------------------------------------------------------------
(* Inputs *)

Surface(w, h) == [width |-> I(w), height |-> I(h)]

Mouse(x, y) == [position |-> Vector2(I(x), I(y))]

\* the state after construction; args[i] is the argument of new Viewport
Constructed(args) ==
    /\ vp = [i \in Inst |-> Viewport(args[i])]
    /\ wellFormed = TRUE
    /\ normalized = Vector2(I(0), I(0))
    /\ renderer = [viewport |-> <<>>, scissor |-> <<>>]
    /\ ret = NoRet
    /\ held = NoRef

-----------------------------------------------------------------------------
(* Spec: one Viewport, every method, the owner's field writes, and records *)
(* of any mode and anchor given to fromJSON                                *)

Offsets == {Vector2(I(0), I(0))}
Sizes == {Vector2(I(1), I(1)), Vector2(Q(1, 2), Q(3, 4))}
Pointers == {Mouse(1, 1), Mouse(3, 1)}

Records ==
    [offset : {<<I(0), I(0)>>}, size : {<<I(1), I(1)>>},
     mode : {ABSOLUTE, ABSOLUTE + 1}, anchor : {BOTTOM_LEFT, BOTTOM_RIGHT + 1}]

Init ==
    /\ \E m \in CtorArgs :
          Constructed([i \in Inst |-> IF i = 1 THEN m ELSE undefined])
    /\ canvas = Surface(4, 2)
    /\ mouse \in Pointers

Next ==
    \/ update(1)
    \/ getAspectRatio(1)
    \/ isInside(1)
    \/ getNormalized(1)
    \/ enable(1)
    \/ toJSON(1)
    \/ fromJSONStored(1)
    \/ \E data \in Records : fromJSON(1, data, 0)
    \/ \E o \in Offsets : SetOffset(1, o)
    \/ \E s \in Sizes : SetSize(1, s)
    \/ \E m \in Modes : SetMode(1, m)
    \/ \E a \in Anchors : SetAnchor(1, a)
    \/ \E p \in Pointers : MouseMove(p)

Spec == Init /\ [][Next]_vars

-----------------------------------------------------------------------------
(* SpecGeom: the inputs of isInside, getNormalized and enable drawn from a *)
(* grid (and the documented examples), then the methods applied            *)

Half(S) == {Q(k, 2) : k \in S}

GeomOffsets == {Vector2(x, y) : x \in Half(0..MaxOffset), y \in Half(0..MaxOffset)}
GeomSizes == {Vector2(x, y) : x \in Half(1..MaxSize), y \in Half(1..MaxSize)}
GeomPointers == {Mouse(x, y) : x \in 0..MaxW, y \in 0..MaxH}

InitGrid ==
    /\ \E m \in Modes, a \in Anchors, o \in GeomOffsets, s \in GeomSizes :
          /\ vp = [i \in Inst |-> IF i = 1
                                  THEN [Viewport(m) EXCEPT !.anchor = a, !.offset = o, !.size = s]
                                  ELSE Viewport(undefined)]
    /\ canvas = Surface(MaxW, MaxH)
    /\ mouse \in GeomPointers

\* surface (1000, 500), ABSOLUTE, offset (10, 10), size (100, 50)
InitAbsoluteExample ==
    /\ \E a \in Anchors :
          vp = [i \in Inst |-> IF i = 1
                               THEN [Viewport(ABSOLUTE) EXCEPT !.anchor = a,
                                        !.offset = Vector2(I(10), I(10)),
                                        !.size = Vector2(I(100), I(50))]
                               ELSE Viewport(undefined)]
    /\ canvas = Surface(1000, 500)
    /\ mouse \in {Mouse(x, y) : x \in {10, 11, 109, 110, 890, 891, 989, 990},
                                y \in {10, 11, 59, 60, 440, 441, 489, 490}}

\* surface (800, 600), RELATIVE, TOP_LEFT, offset (0, 0), size (1, 1)
InitRelativeExample ==
    /\ vp = [i \in Inst |-> Viewport(undefined)]
    /\ canvas = Surface(800, 600)
    /\ mouse \in {Mouse(x, y) : x \in {0, 1, 400, 799, 800}, y \in {0, 1, 300, 599, 600}}

InitGeom ==
    /\ InitGrid \/ InitAbsoluteExample \/ InitRelativeExample
    /\ wellFormed = TRUE
    /\ normalized = Vector2(I(0), I(0))
    /\ renderer = [viewport |-> <<>>, scissor |-> <<>>]
    /\ ret = NoRet
    /\ held = NoRef

NextGeom ==
    \/ getAspectRatio(1)
    \/ isInside(1)
    \/ getNormalized(1)
    \/ enable(1)

SpecGeom == InitGeom /\ [][NextGeom]_vars

-----------------------------------------------------------------------------
(* SpecJSON: two Viewports, serialization, the owner's field writes *)

WideOffsets == {Vector2(I(0), I(0)), Vector2(Q(1, 2), Q(1, 4)), Vector2(I(2), I(1))}
WideSizes == {Vector2(I(1), I(1)), Vector2(Q(1, 2), Q(3, 4)), Vector2(I(3), I(2))}

InitJSON ==
    /\ \E args \in [Inst -> CtorArgs] : Constructed(args)
    /\ canvas = Surface(4, 2)
    /\ mouse = Mouse(1, 1)

NextJSON ==
    \E i \in Inst :
        \/ toJSON(i)
        \/ fromJSONStored(i)
        \/ \E o \in WideOffsets : SetOffset(i, o)
        \/ \E s \in WideSizes : SetSize(i, s)
        \/ \E m \in Modes : SetMode(i, m)
        \/ \E a \in Anchors : SetAnchor(i, a)

SpecJSON == InitJSON /\ [][NextJSON]_vars

-----------------------------------------------------------------------------
(* SpecShared: two Viewports calling getNormalized while the pointer moves *)

InitShared ==
    /\ \E args \in [Inst -> CtorArgs] : Constructed(args)
    /\ canvas = Surface(4, 2)
    /\ mouse \in Pointers

NextShared ==
    \/ \E i \in Inst : getNormalized(i)
    \/ \E i \in Inst, s \in Sizes : SetSize(i, s)
    \/ \E i \in Inst, m \in Modes : SetMode(i, m)
    \/ \E i \in Inst, a \in Anchors : SetAnchor(i, a)
    \/ \E p \in Pointers : MouseMove(p)

SpecShared == InitShared /\ [][NextShared]_vars

-----------------------------------------------------------------------------
(* The claims.  Their rectangles are written from the documentation, not   *)
(* with the operators above.                                               *)

LeftAnchors == {TOP_LEFT, BOTTOM_LEFT}
BottomAnchors == {BOTTOM_LEFT, BOTTOM_RIGHT}

\* RELATIVE: the stored pair times the surface size; ABSOLUTE: the stored pair
EffectiveOffset(v, cv) ==
    IF v.mode = RELATIVE
    THEN Vector2(Mul(v.offset.x, cv.width), Mul(v.offset.y, cv.height))
    ELSE v.offset

EffectiveSize(v, cv) ==
    IF v.mode = RELATIVE
    THEN Vector2(Mul(v.size.x, cv.width), Mul(v.size.y, cv.height))
    ELSE v.size

\* the backend rectangle (origin bottom-left) of v on surface cv
BackendRect(v, cv) ==
    LET o == EffectiveOffset(v, cv)
        s == EffectiveSize(v, cv)
        x == IF v.anchor \in LeftAnchors THEN o.x ELSE Sub(Sub(cv.width, s.x), o.x)
        y == IF v.anchor \in BottomAnchors THEN o.y ELSE Sub(Sub(cv.height, s.y), o.y)
    IN  <<x, y, s.x, s.y>>

Rect(x, y, w, h) == <<I(x), I(y), I(w), I(h)>>

AbsoluteExample(v, cv) ==
    /\ cv = Surface(1000, 500)
    /\ v.mode = ABSOLUTE
    /\ v.offset = Vector2(I(10), I(10))
    /\ v.size = Vector2(I(100), I(50))

\* C1: after enable(), the backend's viewport and scissor rectangles are one
\* and the same rectangle (x, y, size.x, size.y) of the effective offset and
\* size, x flipped for the RIGHT anchors and y flipped for the TOP anchors;
\* the documented example yields its four literal rectangles.
C1_EnableRectangle ==
    (ret.op = "enable" /\ vp[ret.inst].anchor \in Anchors) =>
        LET v == vp[ret.inst]
        IN  /\ renderer.viewport = BackendRect(v, canvas)
            /\ renderer.scissor = renderer.viewport
            /\ AbsoluteExample(v, canvas) =>
                  /\ v.anchor = BOTTOM_LEFT => renderer.viewport = Rect(10, 10, 100, 50)
                  /\ v.anchor = BOTTOM_RIGHT => renderer.viewport = Rect(890, 10, 100, 50)
                  /\ v.anchor = TOP_LEFT => renderer.viewport = Rect(10, 440, 100, 50)
                  /\ v.anchor = TOP_RIGHT => renderer.viewport = Rect(890, 440, 100, 50)

C1_Witness ==
    /\ ret.op = "enable"
    /\ AbsoluteExample(vp[1], canvas)
    /\ vp[1].anchor = TOP_RIGHT
    /\ renderer.scissor = Rect(890, 440, 100, 50)

\* the pointer rectangle (origin top-left) of v on surface cv: <<left, right, top, bottom>>
PointerBounds(v, cv) ==
    LET o == EffectiveOffset(v, cv)
        s == EffectiveSize(v, cv)
    IN  <<IF v.anchor \in LeftAnchors THEN o.x ELSE Sub(Sub(cv.width, s.x), o.x),
          IF v.anchor \in LeftAnchors THEN Add(o.x, s.x) ELSE Sub(cv.width, o.x),
          IF v.anchor \in BottomAnchors THEN Sub(Sub(cv.height, o.y), s.y) ELSE o.y,
          IF v.anchor \in BottomAnchors THEN Sub(cv.height, o.y) ELSE Add(o.y, s.y)>>

OnBound(v, cv, ms) ==
    LET b == PointerBounds(v, cv)
    IN  ms.position.x \in {b[1], b[2]} \/ ms.position.y \in {b[3], b[4]}

RelativeExample(v, cv) ==
    /\ cv = Surface(800, 600)
    /\ v = Viewport(RELATIVE)

\* C2: isInside is true exactly when the pointer is strictly between both
\* horizontal and both vertical bounds of the anchor's rectangle; a pointer on
\* a bound is outside; the documented example holds.
C2_IsInsideStrict ==
    (ret.op = "isInside" /\ vp[ret.inst].anchor \in Anchors) =>
        LET v == vp[ret.inst]
            b == PointerBounds(v, canvas)
            p == mouse.position
        IN  /\ ret.bool = (Lt(b[1], p.x) /\ Lt(p.x, b[2]) /\ Lt(b[3], p.y) /\ Lt(p.y, b[4]))
            /\ OnBound(v, canvas, mouse) => ~ret.bool
            /\ RelativeExample(v, canvas) =>
                  /\ (Le(I(1), p.x) /\ Le(p.x, I(799)) /\ Le(I(1), p.y) /\ Le(p.y, I(599)))
                        => ret.bool
                  /\ mouse \in {Mouse(0, 0), Mouse(800, 600)} => ~ret.bool

C2_Witness ==
    /\ ret.op = "isInside"
    /\ ~ret.bool
    /\ vp[1].anchor = BOTTOM_RIGHT
    /\ LET b == PointerBounds(vp[1], canvas)
       IN  mouse.position.x = b[1] /\ Lt(b[3], mouse.position.y) /\ Lt(mouse.position.y, b[4])

PositiveSize(v) == Lt(I(0), v.size.x) /\ Lt(I(0), v.size.y)

InUnitRange(q) == Le(I(-1), q) /\ Le(q, I(1))

\* C4: for a viewport of positive size, whenever isInside is true of the
\* canvas and pointer, the vector getNormalized returned has both components
\* in [-1, 1].
C4_NormalizedInRange ==
    (/\ ret.op = "getNormalized"
     /\ PositiveSize(vp[ret.inst])
     /\ isInsideValue(vp[ret.inst], canvas, mouse)) =>
        /\ InUnitRange(Deref(ret.vec).x)
        /\ InUnitRange(Deref(ret.vec).y)

C4_Witness ==
    /\ ret.op = "getNormalized"
    /\ vp[1].mode = RELATIVE
    /\ vp[1].anchor = BOTTOM_LEFT
    /\ isInsideValue(vp[1], canvas, mouse)
    /\ Deref(ret.vec) # Vector2(I(0), I(0))

\* the ABSOLUTE viewport that describes the same pixels as v on surface cv
AbsoluteTwin(v, cv) ==
    [v EXCEPT !.mode = ABSOLUTE,
              !.offset = Vector2(Mul(v.offset.x, cv.width), Mul(v.offset.y, cv.height)),
              !.size = Vector2(Mul(v.size.x, cv.width), Mul(v.size.y, cv.height))]

\* C9: a RELATIVE viewport gives the isInside result, the getNormalized
\* result and the enable() rectangle of the ABSOLUTE viewport whose offset and
\* size are its own times the surface size; an ABSOLUTE viewport's rectangle
\* carries its offset and size unscaled.
C9_RelativeIsScaledAbsolute ==
    LET v == vp[1]
        twin == AbsoluteTwin(v, canvas)
    IN  /\ (ret.op = "isInside" /\ v.mode = RELATIVE) =>
               ret.bool = isInsideValue(twin, canvas, mouse)
        /\ (ret.op = "getNormalized" /\ v.mode = RELATIVE) =>
               Deref(ret.vec) = getNormalizedValue(twin, canvas, mouse)
        /\ (ret.op = "enable" /\ v.mode = RELATIVE) =>
               renderer = enableValue(twin, renderer, canvas)
        /\ (ret.op = "enable" /\ v.mode = ABSOLUTE) =>
               /\ renderer.viewport[3] = v.size.x
               /\ renderer.viewport[4] = v.size.y
               /\ v.anchor = BOTTOM_LEFT =>
                     renderer.viewport[1] = v.offset.x /\ renderer.viewport[2] = v.offset.y
        /\ (ret.op = "isInside" /\ v.mode = ABSOLUTE /\ v.anchor = TOP_LEFT) =>
               ret.bool = (/\ Lt(v.offset.x, mouse.position.x)
                           /\ Lt(mouse.position.x, Add(v.offset.x, v.size.x))
                           /\ Lt(v.offset.y, mouse.position.y)
                           /\ Lt(mouse.position.y, Add(v.offset.y, v.size.y)))

C9_Witness ==
    /\ ret.op = "isInside"
    /\ ret.bool
    /\ vp[1].mode = RELATIVE
    /\ vp[1].offset.y # I(0)
    /\ AbsoluteTwin(vp[1], canvas).offset # vp[1].offset
    /\ AbsoluteTwin(vp[1], canvas).size # vp[1].size

\* C10: for the four anchors, the rectangle (x, y, w, h) enable() handed to
\* the backend (origin bottom-left) covers the region isInside tests (origin
\* top-left): isInside is true exactly when x < px < x + w and
\* y < height - py < y + h.
C10_EnableCoversIsInside ==
    (/\ ret.op = "isInside"
     /\ renderer.viewport # <<>>
     /\ vp[ret.inst].anchor \in Anchors) =>
        LET r == renderer.viewport
            px == mouse.position.x
            fy == Sub(canvas.height, mouse.position.y)
        IN  ret.bool = (/\ Lt(r[1], px)
                        /\ Lt(px, Add(r[1], r[3]))
                        /\ Lt(r[2], fy)
                        /\ Lt(fy, Add(r[2], r[4])))

C10_Witness ==
    /\ ret.op = "isInside"
    /\ ret.bool
    /\ renderer.viewport # <<>>
    /\ vp[1].anchor = TOP_LEFT
    /\ vp[1].offset.y # I(0)
    /\ renderer.viewport[2] # EffectiveOffset(vp[1], canvas).y

\* C3: fromJSON on B with the record toJSON returned for A leaves B's offset,
\* size, mode and anchor equal to A's; the record has exactly the fields
\* offset, size, mode, anchor; B's viewport field keeps its value.
C3_JSONRoundTrip ==
    [][(ret.op = "toJSON" /\ ret'.op = "fromJSON" /\ ret'.src = ret.inst) =>
          /\ Fields(vp'[ret'.inst]) = Fields(vp[ret.inst])
          /\ DOMAIN ret.data = {"offset", "size", "mode", "anchor"}
          /\ vp'[ret'.inst].viewport = vp[ret'.inst].viewport]_vars

C3_Witness ==
    /\ ret.op = "fromJSON"
    /\ ret.src = 1
    /\ ret.inst = 2
    /\ ret.fresh
    /\ vp[2].mode = ABSOLUTE
    /\ vp[2].anchor = BOTTOM_RIGHT
    /\ vp[2].offset = Vector2(Q(1, 2), Q(1, 4))
    /\ vp[2].size = Vector2(I(3), I(2))
    /\ vp[2].viewport = Vector4

\* C5: every call of getNormalized, on whichever instance, returns the one
\* vector it mutates in place: after a second call the returned reference and
\* the reference kept from the first call are the same object and hold the
\* values the second call computed.
C5_SharedResultVector ==
    ret.op = "getNormalized" =>
        /\ ret.vec.obj = "normalized"
        /\ Deref(ret.vec) = getNormalizedValue(vp[ret.inst], canvas, mouse)
        /\ ret.kept.obj # "none" =>
              /\ ret.kept.obj = ret.vec.obj
              /\ Deref(ret.kept) = getNormalizedValue(vp[ret.inst], canvas, mouse)

C5_Witness ==
    /\ ret.op = "getNormalized"
    /\ ret.kept.obj # "none"
    /\ ret.kept.by # ret.inst
    /\ ret.kept.at # mouse.position
    /\ getNormalizedValue(vp[ret.kept.by], canvas, [position |-> ret.kept.at])
          # Deref(ret.kept)

Enumerated ==
    \A i \in Inst : vp[i].mode \in Modes /\ vp[i].anchor \in Anchors

\* C7 as claimed: mode and anchor hold an enumerated value in every state,
\* whatever the constructor argument and the records given to fromJSON.
C7_AlwaysEnumerated == Enumerated

\* C7 as amended: mode and anchor hold an enumerated value as long as the
\* constructor's argument was omitted or a mode and every record given to
\* fromJSON carried a mode and an anchor.
C7_EnumeratedWhileWellFormed == wellFormed => Enumerated

C7_Witness ==
    /\ wellFormed
    /\ ret.op = "fromJSON"
    /\ ret.src = 0
    /\ vp[1].mode = ABSOLUTE
    /\ vp[1].anchor = BOTTOM_LEFT

Readers == {"update", "getAspectRatio", "isInside", "getNormalized", "enable", "toJSON"}

\* C8: update, getAspectRatio, isInside, getNormalized, enable and toJSON
\* leave offset, size, mode and anchor of every Viewport, the canvas and the
\* mouse unchanged, and only enable changes the backend.
C8_MethodsOnlyRead ==
    [][ret'.op \in Readers =>
          /\ \A i \in Inst : Fields(vp'[i]) = Fields(vp[i])
          /\ canvas' = canvas
          /\ mouse' = mouse
          /\ ret'.op # "enable" => renderer' = renderer]_vars

C8_Witness ==
    /\ ret.op = "enable"
    /\ vp[1].mode = ABSOLUTE
    /\ vp[1].anchor = TOP_LEFT
    /\ renderer.viewport # <<>>
    /\ vp[1].offset = Vector2(I(0), I(0))

====
